---- MODULE Spec2Model ----
(***************************************************************************)
(* Model of src/lib/util.ts: the SLP metadata encoders pushdata,           *)
(* BNToInt64BE, createOpReturnGenesis, createOpReturnMint and              *)
(* createOpReturnSend.                                                     *)
(*                                                                         *)
(* Representation                                                          *)
(*   byte buffer   sequence of 0..255                                      *)
(*   string        sequence of UTF-16 code units, surrogates included      *)
(*   string|Buffer record [t |-> "str" | "buf", v |-> sequence]            *)
(*   number|null   <<>> for null, <<n>> for the number n                   *)
(*   buf.length    record [hi, lo] of 16-bit limbs, value hi*65536 + lo    *)
(*                 (lengths reach 2^32, beyond the checker's integers)     *)
(*   runtime       a Node whose buffer.constants.MAX_LENGTH is 2^32        *)
(*   BN            record [kind, s, h, frac]: kind "num" | "nan" | "inf",  *)
(*                 s the sign (1 or -1), h the hexadecimal digits of the   *)
(*                 integer part of |bn| without leading zeros (<<0>> for   *)
(*                 zero), frac whether the fractional part is non-zero     *)
(*   result        record [ok, buf, msg]: a returned buffer, or the        *)
(*                 message of the Error thrown                             *)
(***************************************************************************)
EXTENDS Integers, Sequences, FiniteSets, TLC

VARIABLES op, args, ret, otherArgs, otherRet, pc, parts, locals

vars == <<op, args, ret, otherArgs, otherRet, pc, parts, locals>>

Ok(b) == [ok |-> TRUE, buf |-> b, msg |-> ""]

Throw(m) == [ok |-> FALSE, buf |-> <<>>, msg |-> m]

NoRet == [ok |-> FALSE, buf |-> <<>>, msg |-> "pending"]

\* ------------------------------------------------------------------ lengths
Limbs(h, l) == [hi |-> h, lo |-> l]

Length(buf) == Limbs(Len(buf) \div 65536, Len(buf) % 65536)

LenLt(a, b) == a.hi < b.hi \/ (a.hi = b.hi /\ a.lo < b.lo)

writeUInt16LE(n) == <<n % 256, n \div 256>>

writeUInt32LE(len) == writeUInt16LE(len.lo) \o writeUInt16LE(len.hi)

\* ----------------------------------------------------------------- pushdata
\* The size prefix pushdata puts in front of a buffer of the given length
\* (everything of the returned buffer but buf itself), or the Error thrown.
pushdataHeader(len) ==
  IF len = Limbs(0, 0) THEN Ok(<<76, 0>>)
  ELSE IF LenLt(len, Limbs(0, 78)) THEN Ok(<<len.lo % 256>>)
  ELSE IF LenLt(len, Limbs(0, 255)) THEN Ok(<<76, len.lo % 256>>)
  ELSE IF LenLt(len, Limbs(0, 65535)) THEN Ok(<<77>> \o writeUInt16LE(len.lo))
  ELSE IF LenLt(len, Limbs(65535, 65535)) THEN Ok(<<78>> \o writeUInt32LE(len))
  ELSE Throw("does not support bigger pushes yet")

\* buffer.constants.MAX_LENGTH of the runtime, 2^32 on Node 15 to 21: no
\* Buffer is longer, and Buffer.concat throws a RangeError (code
\* ERR_OUT_OF_RANGE) when the total size is.
kMaxLength == Limbs(65536, 0)

LimbsAdd(a, n) == Limbs(a.hi + ((a.lo + n) \div 65536), (a.lo + n) % 65536)

RangeError == Throw("ERR_OUT_OF_RANGE")

\* What a call of pushdata on a buffer of the given length comes to: the
\* Error of the length branch, the RangeError of Buffer.concat when prefix
\* and buffer together pass kMaxLength, and else the prefix.
pushdataOutcome(len) ==
  LET h == pushdataHeader(len)
  IN  IF ~h.ok THEN h
      ELSE IF LenLt(kMaxLength, LimbsAdd(len, Len(h.buf))) THEN RangeError
      ELSE h

pushdata(buf) ==
  LET h == pushdataOutcome(Length(buf))
  IN  IF h.ok THEN Ok(h.buf \o buf) ELSE h

\* ---------------------------------------------------------------- bignumber
isInteger(bn) == bn.kind = "num" /\ ~bn.frac

isPositive(bn) == bn.kind # "nan" /\ bn.s > 0

isEqualTo1(bn) == bn.kind = "num" /\ bn.s = 1 /\ ~bn.frac /\ bn.h = <<1>>

HexChar(d) == IF d < 10 THEN 48 + d ELSE 87 + d

\* bn.toString(16) of an integer bn: lower-case digits, "-" for a negative one.
toString16(bn) ==
  (IF bn.s < 0 /\ bn.h # <<0>> THEN <<45>> ELSE <<>>)
    \o [i \in 1..Len(bn.h) |-> HexChar(bn.h[i])]

\* Mutant of padStart: pads on the right (padEnd).
padStart_padEnd(s, n, c) ==
  IF Len(s) >= n THEN s ELSE s \o [i \in 1..(n - Len(s)) |-> c]

padStart(s, n, c) ==
  IF Len(s) >= n THEN s ELSE [i \in 1..(n - Len(s)) |-> c] \o s

HexVal(c) ==
  IF c >= 48 /\ c <= 57 THEN c - 48
  ELSE IF c >= 97 /\ c <= 102 THEN c - 87
  ELSE IF c >= 65 /\ c <= 70 THEN c - 55
  ELSE -1

RECURSIVE HexPairs(_, _)
HexPairs(s, i) ==
  IF i + 1 > Len(s) \/ HexVal(s[i]) < 0 \/ HexVal(s[i + 1]) < 0 THEN <<>>
  ELSE <<16 * HexVal(s[i]) + HexVal(s[i + 1])>> \o HexPairs(s, i + 2)

\* Buffer.from(s, 'hex'): whole pairs of hex digits up to the first bad one.
BufferFromHex(s) == HexPairs(s, 1)

BNToInt64BE(bn) ==
  IF ~isInteger(bn) THEN Throw("bn not an integer")
  ELSE IF ~isPositive(bn) THEN Throw("bn not positive integer")
  ELSE LET h == toString16(bn)
       IN  IF Len(h) > 16 THEN Throw("bn outside of range")
           ELSE Ok(BufferFromHex(padStart(h, 16, 48)))

\* ------------------------------------------------------------------ strings
IsHighSurrogate(c) == c >= 55296 /\ c <= 56319

IsLowSurrogate(c) == c >= 56320 /\ c <= 57343

\* UTF-8 of one code unit standing alone: a lone surrogate becomes U+FFFD.
Utf8Char(c) ==
  IF c < 128 THEN <<c>>
  ELSE IF c < 2048 THEN <<192 + (c \div 64), 128 + (c % 64)>>
  ELSE IF IsHighSurrogate(c) \/ IsLowSurrogate(c) THEN <<239, 191, 189>>
  ELSE <<224 + (c \div 4096), 128 + ((c \div 64) % 64), 128 + (c % 64)>>

\* UTF-8 of a surrogate pair: the 4 bytes of its code point.
Utf8Pair(hi, lo) ==
  LET cp == 65536 + (hi - 55296) * 1024 + (lo - 56320)
  IN  <<240 + (cp \div 262144), 128 + ((cp \div 4096) % 64),
        128 + ((cp \div 64) % 64), 128 + (cp % 64)>>

RECURSIVE Utf8(_, _)
Utf8(s, i) ==
  IF i > Len(s) THEN <<>>
  ELSE IF IsHighSurrogate(s[i]) /\ i < Len(s) /\ IsLowSurrogate(s[i + 1])
  THEN Utf8Pair(s[i], s[i + 1]) \o Utf8(s, i + 2)
  ELSE Utf8Char(s[i]) \o Utf8(s, i + 1)

\* Buffer.from(x) of a string (UTF-8) or of a Buffer (copy).
BufferFrom(x) == IF x.t = "str" THEN Utf8(x.v, 1) ELSE x.v

\* s.match(/^[0-9a-fA-F]{64}$/)
matchHex64(s) == Len(s) = 64 /\ \A i \in 1..Len(s) : HexVal(s[i]) >= 0

SLP0 == <<83, 76, 80, 0>>

GENESIS == <<71, 69, 78, 69, 83, 73, 83>>

MINT == <<77, 73, 78, 84>>

SEND == <<83, 69, 78, 68>>

VersionTypes == {1, 65, 129}

\* Buffer.concat of an array literal whose elements are evaluated left to
\* right: the first element that throws ends the call with its Error.
RECURSIVE Flatten(_, _)
Flatten(rs, i) == IF i > Len(rs) THEN <<>> ELSE rs[i].buf \o Flatten(rs, i + 1)

\* Mutant of ConcatAll: an element that throws ends the concatenation, and
\* what was assembled so far is returned.
ConcatAll_partial(rs) ==
  IF \E i \in 1..Len(rs) : ~rs[i].ok
  THEN Ok(Flatten(SubSeq(rs, 1, (CHOOSE i \in 1..Len(rs) :
                                   ~rs[i].ok /\ \A j \in 1..(i - 1) : rs[j].ok) - 1), 1))
  ELSE Ok(Flatten(rs, 1))

\* Buffer.concat of buffers that are all there.
BufferConcat(rs) ==
  IF LenLt(kMaxLength, Length(Flatten(rs, 1))) THEN RangeError
  ELSE Ok(Flatten(rs, 1))

ConcatAll(rs) ==
  IF \E i \in 1..Len(rs) : ~rs[i].ok
  THEN rs[CHOOSE i \in 1..Len(rs) : ~rs[i].ok /\ \A j \in 1..(i - 1) : rs[j].ok]
  ELSE BufferConcat(rs)

\* pushdata(BNToInt64BE(v))
pushInt64(v) ==
  LET b == BNToInt64BE(v) IN IF b.ok THEN pushdata(b.buf) ELSE b

\* pushdata(Buffer.from(mintBatonVout === null ? [] : [mintBatonVout]))
pushBaton(mintBatonVout) ==
  pushdata([i \in 1..Len(mintBatonVout) |-> mintBatonVout[i] % 256])

\* ------------------------------------------------------------------ GENESIS
documentHashBytes(documentHash) ==
  IF documentHash.t = "str"
  THEN IF Len(documentHash.v) # 0 /\ Len(documentHash.v) # 64
       THEN Throw("documentHash must be either 0 or 32 hex bytes")
       ELSE IF Len(documentHash.v) = 64 /\ ~matchHex64(documentHash.v)
       THEN Throw("documentHash must be hex")
       ELSE Ok(BufferFromHex(documentHash.v))
  ELSE IF Len(documentHash.v) # 0 /\ Len(documentHash.v) # 32
       THEN Throw("documentHash must be either 0 or 32 hex bytes")
       ELSE Ok(documentHash.v)

batonRange(mintBatonVout) ==
  IF mintBatonVout # <<>> /\ (mintBatonVout[1] < 2 \/ mintBatonVout[1] > 255)
  THEN Throw("mintBatonVout out of range (0x02 < > 0xFF)")
  ELSE Ok(<<>>)

decimalsRange(decimals) ==
  IF decimals < 0 \/ decimals > 9 THEN Throw("decimals out of range")
  ELSE Ok(<<>>)

\* Mutant of childGenesis: the decimals rule of the child genesis is missing.
childGenesis_noDecimals(versionType, decimals, mintBatonVout, quantity) ==
  IF versionType # 65 THEN Ok(<<>>)
  ELSE IF ~isEqualTo1(quantity)
  THEN Throw("quantity must be 1 for NFT1 child genesis")
  ELSE IF mintBatonVout # <<>>
  THEN Throw("mintBatonVout must be null for NFT1 child genesis")
  ELSE Ok(<<>>)

childGenesis(versionType, decimals, mintBatonVout, quantity) ==
  IF versionType # 65 THEN Ok(<<>>)
  ELSE IF ~isEqualTo1(quantity)
  THEN Throw("quantity must be 1 for NFT1 child genesis")
  ELSE IF decimals # 0
  THEN Throw("decimals must be 0 for NFT1 child genesis")
  ELSE IF mintBatonVout # <<>>
  THEN Throw("mintBatonVout must be null for NFT1 child genesis")
  ELSE Ok(<<>>)

\* The checks of createOpReturnGenesis before it starts to build the buffer,
\* in the code's order: the first that fails is the Error thrown.  On success
\* the buffer carried is the normalised documentHash.
genesisChecks(versionType, documentHash, decimals, mintBatonVout, quantity) ==
  IF versionType \notin VersionTypes THEN Throw("unknown versionType")
  ELSE LET h == documentHashBytes(documentHash)
       IN  IF ~h.ok THEN h
           ELSE IF ~decimalsRange(decimals).ok THEN decimalsRange(decimals)
           ELSE IF ~batonRange(mintBatonVout).ok THEN batonRange(mintBatonVout)
           ELSE IF ~childGenesis(versionType, decimals, mintBatonVout, quantity).ok
           THEN childGenesis(versionType, decimals, mintBatonVout, quantity)
           ELSE h

\* Mutant of genesisParts: name is pushed before ticker.
genesisParts_swapped(versionType, ticker, name, documentUrl, hash, decimals, mintBatonVout, quantity) ==
  << Ok(<<106>>),
     pushdata(SLP0),
     pushdata(<<versionType % 256>>),
     pushdata(GENESIS),
     pushdata(BufferFrom(name)),
     pushdata(BufferFrom(ticker)),
     pushdata(BufferFrom(documentUrl)),
     pushdata(hash),
     pushdata(<<decimals % 256>>),
     pushBaton(mintBatonVout),
     pushInt64(quantity) >>

\* The elements of the array literal handed to Buffer.concat, in order.
genesisParts(versionType, ticker, name, documentUrl, hash, decimals, mintBatonVout, quantity) ==
  << Ok(<<106>>),
     pushdata(SLP0),
     pushdata(<<versionType % 256>>),
     pushdata(GENESIS),
     pushdata(BufferFrom(ticker)),
     pushdata(BufferFrom(name)),
     pushdata(BufferFrom(documentUrl)),
     pushdata(hash),
     pushdata(<<decimals % 256>>),
     pushBaton(mintBatonVout),
     pushInt64(quantity) >>

createOpReturnGenesis(versionType, ticker, name, documentUrl, documentHash, decimals, mintBatonVout, quantity) ==
  LET c == genesisChecks(versionType, documentHash, decimals, mintBatonVout,
                         quantity)
  IN  IF ~c.ok THEN c
      ELSE ConcatAll(genesisParts(versionType, ticker, name, documentUrl,
                                  c.buf, decimals, mintBatonVout, quantity))

\* ---------------------------------------------------------------- MINT, SEND
tokenIdBytes(tokenIdHex) ==
  IF tokenIdHex.t = "str"
  THEN IF ~matchHex64(tokenIdHex.v) THEN Throw("tokenIdHex does not pass regex")
       ELSE IF Len(tokenIdHex.v) # 64 THEN Throw("tokenIdHex must be 32 bytes")
       ELSE Ok(BufferFromHex(tokenIdHex.v))
  ELSE IF Len(tokenIdHex.v) # 32 THEN Throw("tokenIdHex must be 32 bytes")
       ELSE Ok(tokenIdHex.v)

createOpReturnMint(versionType, tokenIdHex, mintBatonVout, quantity) ==
  IF versionType \notin VersionTypes THEN Throw("unknown versionType")
  ELSE LET t == tokenIdBytes(tokenIdHex)
       IN  IF ~t.ok THEN t
           ELSE IF ~batonRange(mintBatonVout).ok THEN batonRange(mintBatonVout)
           ELSE ConcatAll(<< Ok(<<106>>),
                             pushdata(SLP0),
                             pushdata(<<versionType % 256>>),
                             pushdata(MINT),
                             pushdata(t.buf),
                             pushBaton(mintBatonVout),
                             pushInt64(quantity) >>)

\* Mutant of amountsRange: the upper limit is off by one.
amountsRange_offByOne(slpAmounts) ==
  IF Len(slpAmounts) < 1 THEN Throw("send requires at least one amount")
  ELSE IF Len(slpAmounts) > 20 THEN Throw("too many slp amounts")
  ELSE Ok(<<>>)

amountsRange(slpAmounts) ==
  IF Len(slpAmounts) < 1 THEN Throw("send requires at least one amount")
  ELSE IF Len(slpAmounts) > 19 THEN Throw("too many slp amounts")
  ELSE Ok(<<>>)

createOpReturnSend(versionType, tokenIdHex, slpAmounts) ==
  IF versionType \notin VersionTypes THEN Throw("unknown versionType")
  ELSE LET t == tokenIdBytes(tokenIdHex)
       IN  IF ~t.ok THEN t
           ELSE IF ~amountsRange(slpAmounts).ok THEN amountsRange(slpAmounts)
           ELSE ConcatAll(<< Ok(<<106>>),
                             pushdata(SLP0),
                             pushdata(<<versionType % 256>>),
                             pushdata(SEND),
                             pushdata(t.buf) >>
                          \o [i \in 1..Len(slpAmounts) |-> pushInt64(slpAmounts[i])])

\* ------------------------------------------------------------------- inputs
MaxFill == 2

MaxHexDigits == 17

MaxAmounts == 20

Str(v) == [t |-> "str", v |-> v]

Buf(v) == [t |-> "buf", v |-> v]

\* A buffer of n bytes, the k-th of a family of contents.
Fill(n, k) == [i \in 1..n |-> (k * i + 7 * k) % 256]

PushLengths == {0, 1, 2, 75, 76, 77, 78, 79, 200, 253, 254, 255, 256, 300}

PushBuffers == {Fill(n, k) : n \in PushLengths, k \in 0..MaxFill}

\* Lengths up to kMaxLength, the longest buffer there is, as limbs.
BigLengths ==
  {Limbs(h, l) : h \in {0, 1, 2, 255, 65534, 65535},
                 l \in {0, 1, 75, 76, 77, 78, 254, 255, 256,
                        65530, 65531, 65532, 65533, 65534, 65535}}
    \cup {kMaxLength}

Num(s, h, frac) == [kind |-> "num", s |-> s, h |-> h, frac |-> frac]

NaN == [kind |-> "nan", s |-> 0, h |-> <<0>>, frac |-> FALSE]

Infinity == [kind |-> "inf", s |-> 1, h |-> <<0>>, frac |-> FALSE]

\* n hexadecimal digits without a leading zero, the k-th of a family.
Digits(n, k) == [i \in 1..n |-> IF i = 1 THEN 1 + ((k * 7) % 15) ELSE (k * i + 3 * k) % 16]

Zero == Num(1, <<0>>, FALSE)

One == Num(1, <<1>>, FALSE)

Thousand == Num(1, <<3, 14, 8>>, FALSE)

MaxUInt64 == Num(1, [i \in 1..16 |-> 15], FALSE)

TwoTo64 == Num(1, [i \in 1..17 |-> IF i = 1 THEN 1 ELSE 0], FALSE)

BNValues ==
  {Num(s, Digits(n, k), f) : s \in {1, -1}, n \in 1..MaxHexDigits, k \in 0..MaxFill,
                             f \in BOOLEAN}
    \cup {Num(s, <<0>>, f) : s \in {1, -1}, f \in BOOLEAN}
    \cup {Thousand, MaxUInt64, TwoTo64, NaN, Infinity}

Quantities ==
  {Zero, One, Thousand, MaxUInt64, TwoTo64, Num(-1, <<1>>, FALSE),
   Num(1, <<1>>, TRUE), NaN}

TOK == <<84, 79, 75>>

Token == <<84, 111, 107, 101, 110>>

\* "TOK", a string with 2-, 3- and 4-byte characters and a lone surrogate,
\* and raw bytes.
Tickers == {Str(TOK), Str(<<233, 8364, 55357, 56832, 56320>>), Buf(Fill(80, 1))}

Names == {Str(Token), Str(<<>>)}

DocumentUrls == {Str(<<>>), Buf(<<104, 116, 116, 112>>)}

HexString(n, c) == Str([i \in 1..n |-> IF i % 2 = 0 THEN c ELSE 65 + (i % 6)])

\* 64 hex digits, 64 characters with a non-hex one, wrong lengths, raw bytes.
HashLikes ==
  {Str(<<>>), HexString(64, 57), HexString(64, 103), HexString(2, 57),
   HexString(66, 57), Buf(<<>>), Buf(Fill(32, 1)), Buf(Fill(31, 1)),
   Buf(Fill(64, 1))}

Numbers == {-1, 0, 1, 2, 9, 10, 255, 256}

Batons == {<<>>} \cup {<<n>> : n \in Numbers}

VersionTypeInputs == {0, 1, 65, 129, 130}

GenesisInputs ==
  [versionType : VersionTypeInputs, ticker : Tickers, name : Names,
   documentUrl : DocumentUrls, documentHash : HashLikes,
   decimals : {-1, 0, 2, 9, 10}, mintBatonVout : {<<>>, <<1>>, <<2>>, <<255>>, <<256>>},
   quantity : Quantities]

MintInputs ==
  [versionType : VersionTypeInputs, tokenIdHex : HashLikes, mintBatonVout : Batons,
   quantity : Quantities]

\* k amounts, valid ones in rotation j, with the one at position bad (if any)
\* replaced by a value BNToInt64BE rejects.
Amounts(k, j, bad, v) ==
  [i \in 1..k |-> IF i = bad THEN v
                  ELSE IF (i + j) % 3 = 0 THEN Zero
                  ELSE IF (i + j) % 3 = 1 THEN Thousand ELSE MaxUInt64]

AmountLists ==
  {Amounts(k, j, bad, v) : k \in 0..MaxAmounts, j \in 0..MaxFill, bad \in {0, 1, 19},
                           v \in {TwoTo64, Num(-1, <<1>>, FALSE)}}

SendInputs ==
  [versionType : VersionTypeInputs, tokenIdHex : HashLikes, slpAmounts : AmountLists]

\* ---------------------------------------------------------- calls, one each
Idle == /\ otherArgs = <<>>
        /\ otherRet = NoRet
        /\ pc = "call"
        /\ parts = <<>>
        /\ locals = <<>>

Init ==
  /\ \/ op = "pushdata" /\ args \in PushBuffers
     \/ op = "pushdataLength" /\ args \in BigLengths
     \/ op = "BNToInt64BE" /\ args \in BNValues
     \/ op = "createOpReturnGenesis" /\ args \in GenesisInputs
     \/ op = "createOpReturnMint" /\ args \in MintInputs
     \/ op = "createOpReturnSend" /\ args \in SendInputs
  /\ ret = NoRet
  /\ Idle

Return(r) ==
  /\ pc = "call"
  /\ pc' = "returned"
  /\ ret' = r
  /\ UNCHANGED <<op, args, otherArgs, otherRet, parts, locals>>

Pushdata == op = "pushdata" /\ Return(pushdata(args))

\* pushdata of a buffer of the given length, contents left open: the Error
\* thrown, or the prefix of the buffer returned.
PushdataLength == op = "pushdataLength" /\ Return(pushdataOutcome(args))

Int64 == op = "BNToInt64BE" /\ Return(BNToInt64BE(args))

Genesis ==
  /\ op = "createOpReturnGenesis"
  /\ Return(createOpReturnGenesis(args.versionType, args.ticker, args.name,
                                  args.documentUrl, args.documentHash,
                                  args.decimals, args.mintBatonVout, args.quantity))

Mint ==
  /\ op = "createOpReturnMint"
  /\ Return(createOpReturnMint(args.versionType, args.tokenIdHex,
                               args.mintBatonVout, args.quantity))

Send ==
  /\ op = "createOpReturnSend"
  /\ Return(createOpReturnSend(args.versionType, args.tokenIdHex, args.slpAmounts))

Next == Pushdata \/ PushdataLength \/ Int64 \/ Genesis \/ Mint \/ Send

Spec == Init /\ [][Next]_vars

Returned(o) == op = o /\ pc = "returned"

\* ------------------------------------------------- two GENESIS calls, apart
PairInputs ==
  [versionType : {1, 129},
   ticker : {Str(TOK), Buf(<<78>> \o Fill(75, 0)), Buf(Fill(75, 0) \o <<5, 0, 0>>)},
   name : {Str(Token), Str(<<97>>), Buf(<<0, 0, 1, 97, 2>>)},
   documentUrl : {Str(<<>>), Buf(<<76, 0>>)},
   documentHash : {Str(<<>>)},
   decimals : {0, 2},
   mintBatonVout : {<<>>, <<2>>},
   quantity : {Thousand}]

InitPair ==
  /\ op = "pair"
  /\ args \in PairInputs
  /\ otherArgs \in PairInputs
  /\ ret = NoRet
  /\ otherRet = NoRet
  /\ pc = "call"
  /\ parts = <<>>
  /\ locals = <<>>

GenesisOne ==
  /\ op = "pair"
  /\ ret = NoRet
  /\ ret' = createOpReturnGenesis(args.versionType, args.ticker, args.name,
                                  args.documentUrl, args.documentHash,
                                  args.decimals, args.mintBatonVout, args.quantity)
  /\ UNCHANGED <<op, args, otherArgs, otherRet, pc, parts, locals>>

GenesisOther ==
  /\ op = "pair"
  /\ otherRet = NoRet
  /\ otherRet' = createOpReturnGenesis(otherArgs.versionType, otherArgs.ticker,
                                       otherArgs.name, otherArgs.documentUrl,
                                       otherArgs.documentHash, otherArgs.decimals,
                                       otherArgs.mintBatonVout, otherArgs.quantity)
  /\ UNCHANGED <<op, args, ret, otherArgs, pc, parts, locals>>

NextPair == GenesisOne \/ GenesisOther

SpecPair == InitPair /\ [][NextPair]_vars

\* ------------------------------------------- createOpReturnGenesis, stepwise
StepInputs ==
  [versionType : {0, 1, 65}, ticker : {Str(TOK)}, name : Names,
   documentUrl : {Str(<<>>)}, documentHash : HashLikes,
   decimals : {-1, 0, 2, 10}, mintBatonVout : {<<>>, <<1>>, <<2>>},
   quantity : Quantities]

InitSteps ==
  /\ op = "genesisSteps"
  /\ args \in StepInputs
  /\ otherArgs = <<>>
  /\ otherRet = NoRet
  /\ ret = NoRet
  /\ pc = "versionType"
  /\ parts = <<>>
  /\ locals = [documentHash |-> args.documentHash.v, int64 |-> <<>>]

\* Mutant of after: the child genesis rules are never checked.
after_skipChild(label) ==
  CASE label = "versionType" -> "documentHash"
    [] label = "documentHash" -> "decimals"
    [] label = "decimals" -> "mintBatonVout"
    [] label = "mintBatonVout" -> "encode"
    [] label = "childGenesis" -> "encode"
    [] label = "encode" -> "BNToInt64BE"
    [] label = "BNToInt64BE" -> "pushQuantity"
    [] label = "pushQuantity" -> "concat"
    [] label = "concat" -> "returned"

\* The statement that follows each statement of createOpReturnGenesis.
after(label) ==
  CASE label = "versionType" -> "documentHash"
    [] label = "documentHash" -> "decimals"
    [] label = "decimals" -> "mintBatonVout"
    [] label = "mintBatonVout" -> "childGenesis"
    [] label = "childGenesis" -> "encode"
    [] label = "encode" -> "BNToInt64BE"
    [] label = "BNToInt64BE" -> "pushQuantity"
    [] label = "pushQuantity" -> "concat"
    [] label = "concat" -> "returned"

\* A statement at label that throws r, or goes on when r is no Error; an
\* Error unwinds the call, and the elements built so far are dropped.
Check(label, r) ==
  /\ op = "genesisSteps"
  /\ pc = label
  /\ IF r.ok
     THEN /\ pc' = after(label)
          /\ UNCHANGED <<ret, parts>>
     ELSE /\ pc' = "returned"
          /\ ret' = r
          /\ parts' = <<>>
  /\ UNCHANGED <<op, args, otherArgs, otherRet>>

CheckVersionType ==
  /\ Check("versionType",
           IF args.versionType \notin VersionTypes THEN Throw("unknown versionType")
           ELSE Ok(<<>>))
  /\ UNCHANGED locals

CheckDocumentHash ==
  /\ Check("documentHash", documentHashBytes(args.documentHash))
  /\ locals' = [locals EXCEPT !.documentHash = documentHashBytes(args.documentHash).buf]

CheckDecimals ==
  /\ Check("decimals", decimalsRange(args.decimals))
  /\ UNCHANGED locals

CheckMintBatonVout ==
  /\ Check("mintBatonVout", batonRange(args.mintBatonVout))
  /\ UNCHANGED locals

CheckChildGenesis ==
  /\ Check("childGenesis", childGenesis(args.versionType, args.decimals,
                                        args.mintBatonVout, args.quantity))
  /\ UNCHANGED locals

\* The next of the first ten elements of the array literal: the OP_RETURN
\* byte, then one pushdata per field up to mintBatonVout.
EncodeField ==
  /\ op = "genesisSteps"
  /\ pc = "encode"
  /\ parts' = Append(parts,
                     genesisParts(args.versionType, args.ticker, args.name,
                                  args.documentUrl, locals.documentHash,
                                  args.decimals, args.mintBatonVout,
                                  args.quantity)[Len(parts) + 1])
  /\ pc' = IF Len(parts) + 1 = 10 THEN after("encode") ELSE "encode"
  /\ UNCHANGED <<op, args, ret, otherArgs, otherRet, locals>>

\* BNToInt64BE(quantity), the argument of the last pushdata.
EncodeQuantity ==
  /\ Check("BNToInt64BE", BNToInt64BE(args.quantity))
  /\ locals' = [locals EXCEPT !.int64 = BNToInt64BE(args.quantity).buf]

PushQuantity ==
  /\ op = "genesisSteps"
  /\ pc = "pushQuantity"
  /\ parts' = Append(parts, pushdata(locals.int64))
  /\ pc' = after("pushQuantity")
  /\ UNCHANGED <<op, args, ret, otherArgs, otherRet, locals>>

Concat ==
  /\ op = "genesisSteps"
  /\ pc = "concat"
  /\ ret' = ConcatAll(parts)
  /\ pc' = after("concat")
  /\ UNCHANGED <<op, args, otherArgs, otherRet, parts, locals>>

NextSteps ==
  \/ CheckVersionType
  \/ CheckDocumentHash
  \/ CheckDecimals
  \/ CheckMintBatonVout
  \/ CheckChildGenesis
  \/ EncodeField
  \/ EncodeQuantity
  \/ PushQuantity
  \/ Concat

SpecSteps == InitSteps /\ [][NextSteps]_vars

\* =================================================================== claims
\* What the claims say of the inputs, stated without the code's own checks.
IsIntegerValue(bn) == bn.kind = "num" /\ bn.frac = FALSE

\* An integer of [0, 2^64-1]: sign positive, at most 16 hexadecimal digits.
InUInt64(bn) == IsIntegerValue(bn) /\ bn.s = 1 /\ Len(bn.h) <= 16

Nibbles(b) ==
  [i \in 1..(2 * Len(b)) |-> IF i % 2 = 1 THEN b[(i + 1) \div 2] \div 16
                             ELSE b[i \div 2] % 16]

RECURSIVE StripZeros(_)
StripZeros(d) == IF Len(d) > 1 /\ d[1] = 0 THEN StripZeros(Tail(d)) ELSE d

\* The 8 big-endian bytes of the value whose hexadecimal digits are h.
BigEndian8(h) ==
  LET p == [i \in 1..16 |-> IF i <= 16 - Len(h) THEN 0 ELSE h[i - (16 - Len(h))]]
  IN  [j \in 1..8 |-> 16 * p[2 * j - 1] + p[2 * j]]

HexCharacters == (48..57) \cup (65..70) \cup (97..102)

\* A documentHash or tokenId that stands for exactly n bytes.
StandsForBytes(x, n) ==
  \/ x.t = "buf" /\ Len(x.v) = n
  \/ x.t = "str" /\ Len(x.v) = 2 * n /\ \A i \in 1..Len(x.v) : x.v[i] \in HexCharacters

BatonOutOfRange(m) == m # <<>> /\ (m[1] < 2 \/ m[1] > 255)

\* The length of the push of an n-byte field, n below 255.
PushedLength(n) == IF n = 0 THEN 2 ELSE IF n < 78 THEN n + 1 ELSE n + 2

\* C1: for every buffer B with 0x4C <= length(B) < 0xFF, pushdata(B) is the
\* bytes [0x4C, length(B)] followed by B.
C1_Pushdata1FromLength76 ==
  (Returned("pushdata") /\ Len(args) >= 76 /\ Len(args) < 255)
    => (ret.ok /\ ret.buf = <<76, Len(args)>> \o args)

\* C2: pushdata succeeds for every length up to and including 2^32-1 and
\* fails exactly from 2^32 on; from 65536 to 2^32-1 the prefix is a marker
\* byte and the 4-byte little-endian length.
C2_PushdataUpTo32Bits ==
  Returned("pushdataLength")
    => /\ ret.ok <=> args.hi < 65536
       /\ (args.hi >= 1 /\ args.hi < 65536)
            => (ret.ok /\ ret.buf = <<78, args.lo % 256, args.lo \div 256,
                                      args.hi % 256, args.hi \div 256>>)

\* C3: for every buffer B with 255 <= length(B) <= 65535, pushdata(B) is one
\* marker byte, the 2-byte little-endian length and B, the upper boundary
\* 65535 included.
C3_Pushdata2UpTo65535 ==
  /\ (Returned("pushdata") /\ Len(args) >= 255 /\ Len(args) <= 65535)
       => (ret.ok /\ ret.buf = <<77, Len(args) % 256, Len(args) \div 256>> \o args)
  /\ (Returned("pushdataLength") /\ args.hi = 0 /\ args.lo >= 255)
       => (ret.ok /\ ret.buf = <<77, args.lo % 256, args.lo \div 256>>)

\* C4: for every integer n of [0, 2^64-1], BNToInt64BE(n) is exactly 8 bytes
\* whose big-endian value is n; a non-integer, a negative or a larger n
\* fails, the checks made in the order not-integer, not-positive, range.
C4_Int64BigEndian ==
  Returned("BNToInt64BE")
    => /\ InUInt64(args)
            => /\ ret.ok
               /\ Len(ret.buf) = 8
               /\ StripZeros(Nibbles(ret.buf)) = args.h
               /\ ret.buf = BigEndian8(args.h)
       /\ ~InUInt64(args) => ~ret.ok
       /\ ~IsIntegerValue(args) => ret.msg = "bn not an integer"
       /\ (IsIntegerValue(args) /\ args.s < 0) => ret.msg = "bn not positive integer"
       /\ (IsIntegerValue(args) /\ args.s > 0 /\ Len(args.h) > 16)
            => ret.msg = "bn outside of range"

C4_Witness ==
  /\ Returned("BNToInt64BE")
  /\ args = Thousand
  /\ ret = Ok(<<0, 0, 0, 0, 0, 0, 3, 232>>)

ChildGenesisMessages ==
  {"quantity must be 1 for NFT1 child genesis",
   "decimals must be 0 for NFT1 child genesis",
   "mintBatonVout must be null for NFT1 child genesis"}

\* A child genesis call whose ticker, name, documentUrl and documentHash are
\* valid.
ChildCall ==
  /\ Returned("createOpReturnGenesis")
  /\ args.versionType = 65
  /\ (StandsForBytes(args.documentHash, 0) \/ StandsForBytes(args.documentHash, 32))

BreaksChildRule ==
  args.quantity # One \/ args.decimals # 0 \/ args.mintBatonVout # <<>>

\* C5 as stated: a child genesis (versionType 0x41) succeeds with quantity 1,
\* decimals 0 and no mintBatonVout, and every child genesis that breaks one
\* of the three fails with the child-genesis failure and no other.
C5_ChildFailureOnly ==
  ChildCall
    => /\ ~BreaksChildRule => ret.ok
       /\ BreaksChildRule => (~ret.ok /\ ret.msg \in ChildGenesisMessages)

\* C5 amended: a child genesis succeeds with quantity 1, decimals 0 and no
\* mintBatonVout; one that breaks one of the three always fails, with the
\* child-genesis failure when decimals is within 0..9 and mintBatonVout is
\* absent or within 2..255, and with the decimals or mintBatonVout range
\* failure otherwise, the range checks being made first.
C5_ChildFailureAfterRanges ==
  ChildCall
    => /\ ~BreaksChildRule => ret.ok
       /\ BreaksChildRule => ~ret.ok
       /\ (BreaksChildRule /\ args.decimals \in 0..9
             /\ ~BatonOutOfRange(args.mintBatonVout))
            => ret.msg \in ChildGenesisMessages
       /\ args.decimals \notin 0..9 => ret.msg = "decimals out of range"
       /\ (args.decimals \in 0..9 /\ BatonOutOfRange(args.mintBatonVout))
            => ret.msg = "mintBatonVout out of range (0x02 < > 0xFF)"

C5_Witness ==
  /\ ChildCall
  /\ args.quantity = One
  /\ args.decimals = 2
  /\ args.mintBatonVout = <<>>
  /\ ret = Throw("decimals must be 0 for NFT1 child genesis")

\* C6: createOpReturnSend with a valid versionType and a tokenId of 32 bytes
\* fails on no amounts and on 20 or more; on 1 <= k <= 19 amounts, each of
\* [0, 2^64-1], it returns 0x6A, push("SLP\0"), push(versionType),
\* push("SEND"), push(tokenId) and the k pushes of the 8-byte big-endian
\* amounts in input order, 46 + 9k bytes.
C6_SendAmounts ==
  (/\ Returned("createOpReturnSend")
   /\ args.versionType \in {1, 65, 129}
   /\ StandsForBytes(args.tokenIdHex, 32))
    => LET k == Len(args.slpAmounts)
       IN  /\ k = 0 => ~ret.ok
           /\ k >= 20 => ~ret.ok
           /\ (k >= 1 /\ k <= 19 /\ \A i \in 1..k : InUInt64(args.slpAmounts[i]))
                => /\ ret.ok
                   /\ Len(ret.buf) = 46 + 9 * k
                   /\ SubSeq(ret.buf, 1, 14)
                        = <<106, 4, 83, 76, 80, 0, 1, args.versionType,
                            4, 83, 69, 78, 68, 32>>
                   /\ SubSeq(ret.buf, 15, 46) = tokenIdBytes(args.tokenIdHex).buf
                   /\ \A i \in 1..k :
                        SubSeq(ret.buf, 38 + 9 * i, 46 + 9 * i)
                          = <<8>> \o BigEndian8(args.slpAmounts[i].h)

C6_Witness ==
  /\ Returned("createOpReturnSend")
  /\ args.versionType = 1
  /\ StandsForBytes(args.tokenIdHex, 32)
  /\ Len(args.slpAmounts) = 19
  /\ ret.ok
  /\ Len(ret.buf) = 217

\* The GENESIS layout written out field by field, for fields below 255 bytes.
Pushed(b) ==
  IF Len(b) = 0 THEN <<76, 0>>
  ELSE IF Len(b) < 78 THEN <<Len(b)>> \o b
  ELSE <<76, Len(b)>> \o b

GenesisLayout(a) ==
  <<106>> \o <<4, 83, 76, 80, 0>> \o <<1, a.versionType>>
    \o <<7, 71, 69, 78, 69, 83, 73, 83>>
    \o Pushed(BufferFrom(a.ticker)) \o Pushed(BufferFrom(a.name))
    \o Pushed(BufferFrom(a.documentUrl))
    \o Pushed(documentHashBytes(a.documentHash).buf)
    \o <<1, a.decimals>>
    \o (IF a.mintBatonVout = <<>> THEN <<76, 0>> ELSE <<1, a.mintBatonVout[1]>>)
    \o <<8>> \o BigEndian8(a.quantity.h)

TokenExample ==
  [versionType |-> 1, ticker |-> Str(TOK), name |-> Str(Token),
   documentUrl |-> Str(<<>>), documentHash |-> Str(<<>>), decimals |-> 2,
   mintBatonVout |-> <<2>>, quantity |-> Thousand]

TokenExampleBytes ==
  <<106, 4, 83, 76, 80, 0, 1, 1, 7, 71, 69, 78, 69, 83, 73, 83, 3, 84, 79, 75,
    5, 84, 111, 107, 101, 110, 76, 0, 76, 0, 1, 2, 1, 2,
    8, 0, 0, 0, 0, 0, 0, 3, 232>>

\* C7: on success createOpReturnGenesis returns 0x6A and the pushes of
\* "SLP\0", versionType, "GENESIS", ticker, name, documentUrl, documentHash,
\* decimals, mintBatonVout (the empty push when absent) and the 8-byte
\* quantity, in this order; GENESIS(0x01, "TOK", "Token", "", "", 2, 2, 1000)
\* is 6A 04 53 4C 50 00 01 01 07 47 45 4E 45 53 49 53 03 54 4F 4B 05 54 6F
\* 6B 65 6E 4C 00 4C 00 01 02 01 02 08 00 00 00 00 00 00 03 E8.
C7_GenesisLayout ==
  Returned("createOpReturnGenesis")
    => /\ ret.ok => ret.buf = GenesisLayout(args)
       /\ args = TokenExample => ret = Ok(TokenExampleBytes)

C7_Witness ==
  /\ Returned("createOpReturnGenesis")
  /\ args = TokenExample
  /\ ret.ok
  /\ Len(ret.buf) = 43

\* The constraints C8 lists, per call.
ConstraintViolated ==
  \/ args.versionType \notin {1, 65, 129}
  \/ /\ op = "createOpReturnGenesis"
     /\ \/ ~(StandsForBytes(args.documentHash, 0) \/ StandsForBytes(args.documentHash, 32))
        \/ args.decimals < 0 \/ args.decimals > 9
        \/ BatonOutOfRange(args.mintBatonVout)
        \/ ~InUInt64(args.quantity)
  \/ /\ op = "createOpReturnMint"
     /\ \/ ~StandsForBytes(args.tokenIdHex, 32)
        \/ BatonOutOfRange(args.mintBatonVout)
        \/ ~InUInt64(args.quantity)
  \/ /\ op = "createOpReturnSend"
     /\ \/ ~StandsForBytes(args.tokenIdHex, 32)
        \/ \E i \in 1..Len(args.slpAmounts) : ~InUInt64(args.slpAmounts[i])

\* The length of the complete buffer of a call, every field present.
CompleteLength ==
  IF op = "createOpReturnGenesis"
  THEN 16 + PushedLength(Len(BufferFrom(args.ticker)))
          + PushedLength(Len(BufferFrom(args.name)))
          + PushedLength(Len(BufferFrom(args.documentUrl)))
          + PushedLength(IF StandsForBytes(args.documentHash, 32) THEN 32 ELSE 0)
          + 2 + PushedLength(Len(args.mintBatonVout)) + 9
  ELSE IF op = "createOpReturnMint"
  THEN 46 + PushedLength(Len(args.mintBatonVout)) + 9
  ELSE 46 + 9 * Len(args.slpAmounts)

MessageCall ==
  /\ op \in {"createOpReturnGenesis", "createOpReturnMint", "createOpReturnSend"}
  /\ pc = "returned"

\* C8: a call of createOpReturnGenesis, createOpReturnMint or
\* createOpReturnSend returns the complete buffer, every field present, or
\* fails and returns no buffer; it fails whenever one of the constraints is
\* violated, so that no truncated buffer reaches the caller.
C8_AllOrNothing ==
  MessageCall
    => /\ ret.ok \/ (ret.buf = <<>> /\ ret.msg # "")
       /\ ConstraintViolated => ~ret.ok
       /\ ret.ok => /\ Len(ret.buf) = CompleteLength
                    /\ ret.buf[1] = 106

C8_Witness ==
  /\ Returned("createOpReturnMint")
  /\ args.versionType = 129
  /\ StandsForBytes(args.tokenIdHex, 32)
  /\ args.mintBatonVout = <<2>>
  /\ args.quantity = TwoTo64
  /\ ret = Throw("bn outside of range")

\* The values of the fields of a GENESIS call.
FieldValues(a) ==
  <<a.versionType, BufferFrom(a.ticker), BufferFrom(a.name),
    BufferFrom(a.documentUrl), documentHashBytes(a.documentHash).buf,
    a.decimals, a.mintBatonVout, a.quantity>>

\* C9: two successful createOpReturnGenesis calls whose field values are not
\* all equal return different buffers, so that a decoder reading the
\* length-prefixed fields in order recovers the field values.
C9_GenesisInjective ==
  (/\ op = "pair"
   /\ ret.ok
   /\ otherRet.ok
   /\ FieldValues(args) # FieldValues(otherArgs))
    => ret.buf # otherRet.buf

\* The pushdata calls made so far: the elements built but the OP_RETURN byte.
Pushes == IF parts = <<>> THEN 0 ELSE Len(parts) - 1

FieldChecks ==
  {"versionType", "documentHash", "decimals", "mintBatonVout", "childGenesis"}

\* C10 as stated: every field constraint of createOpReturnGenesis, the
\* [0, 2^64-1] check of quantity included, is evaluated before the
\* length-prefix encoding of any field; no pushdata precedes a validation.
C10_ValidateThenEncode ==
  (op = "genesisSteps" /\ pc \in FieldChecks \cup {"BNToInt64BE"}) => Pushes = 0

\* C10 amended: every field constraint but the [0, 2^64-1] check of quantity
\* is evaluated before the length-prefix encoding of any field, which starts
\* only once they all hold; the check of quantity is made while encoding,
\* after the pushdata of the nine fields before it and before the
\* concatenation, and nothing is returned until it has passed.
C10_FieldChecksThenEncode ==
  op = "genesisSteps"
    => /\ pc \in FieldChecks => (Pushes = 0 /\ parts = <<>>)
       /\ pc \in {"encode", "BNToInt64BE", "pushQuantity", "concat"}
            => /\ args.versionType \in {1, 65, 129}
               /\ (StandsForBytes(args.documentHash, 0)
                     \/ StandsForBytes(args.documentHash, 32))
               /\ args.decimals \in 0..9
               /\ ~BatonOutOfRange(args.mintBatonVout)
               /\ args.versionType = 65
                    => (args.quantity = One /\ args.decimals = 0
                          /\ args.mintBatonVout = <<>>)
       /\ pc = "BNToInt64BE" => Pushes = 9
       /\ pc \in {"pushQuantity", "concat"} => InUInt64(args.quantity)
       /\ pc # "returned" => ret = NoRet
       /\ (pc = "returned" /\ ret.ok)
            => (InUInt64(args.quantity) /\ ret.buf = GenesisLayout(args))

C10_Witness ==
  /\ op = "genesisSteps"
  /\ pc = "BNToInt64BE"
  /\ Pushes = 9
  /\ args.quantity = TwoTo64

====
